---- MODULE Spec2Model ----
(***************************************************************************)
(* Model of darshan_summarizer/parser.py: the line scanner                 *)
(* (extract_modules), the header extractor (extract_header), the reshape   *)
(* and the writers of parse_darshan_to_csv, and list_darshan_modules; and  *)
(* of the question command of darshan_summarizer/main.py (run_question)   *)
(* with the DarshanSummarizerAgent of darshan_summarizer/agent.py.         *)
(*                                                                         *)
(* A Python str is a sequence of chunks.  A chunk is a group of characters *)
(* the code never looks inside: a word, one white-space character, one     *)
(* line break, "#", "<", ">", ",", the file suffixes ".csv" and ".txt",    *)
(* or the text of a SKIP_LINES entry after its "#" (such a line is only    *)
(* ever compared as a whole).  Every test the code makes on a str (in,     *)
(* startswith, endswith, split, strip, splitlines, replace, re.findall) is *)
(* computed on the chunks.  None and the empty str are both the empty      *)
(* sequence: the code only ever tests them with "not", and pandas' missing *)
(* value (None/NaN) is the empty sequence too, no token being empty.       *)
(***************************************************************************)
EXTENDS Integers, Sequences, FiniteSets, TLC

VARIABLES
    log_content,          \* parse_darshan_to_csv: the argument log_content
    pc,                   \* position inside parse_darshan_to_csv
    lines,                \* extract_modules: the lines the for loop has not read yet
    modules,              \* extract_modules: the dict, in insertion order
    module,               \* extract_modules: name of the current section, or None
    in_module,            \* extract_modules: inside a section
    current_description,  \* extract_modules: list of comment lines
    column_names,         \* extract_modules: list parsed from the last column spec
    header,               \* parse_darshan_to_csv: result of extract_header
    k,                    \* parse_darshan_to_csv: index of the module being processed
    df,                   \* parse_darshan_to_csv: the table after pivot_table/reset_index
    dir_exists,           \* the output directory exists
    fs,                   \* the files of the output directory: name -> content
    listed,               \* result of list_darshan_modules: name -> multiplicity
    err,                  \* the exception that ended the run, or "none"
    previous,             \* the call of parse_darshan_to_csv before this one
    agent,                \* DarshanSummarizerAgent: self.agent
    kernel,               \* DarshanSummarizerAgent: self.kernel
    darshan_modules,      \* DarshanSummarizerAgent: self.darshan_modules
    cmd,                  \* position inside run_question
    answer,               \* run_question: what ask_question returned or raised
    messages,             \* DarshanSummarizerAgent: self.agent.messages
    analysis_result,      \* DarshanSummarizerAgent: self.analysis_result
    summary,              \* DarshanSummarizerAgent: self.summary
    call,                 \* the last call of a method of the agent and how it ended
    completed,            \* the methods of the agent that have returned
    execution_lock,       \* JupyterKernel: the task holding self._execution_lock, or 0
    shell,                \* the requests sent with self.kc.execute the kernel has not done
    replied,              \* number of replies the kernel has sent for the first of them
    iopub,                \* the messages self.kc.get_iopub_msg has not delivered yet
    tasks                 \* the calls of execute: position and the messages collected

\* the fields of the DarshanSummarizerAgent and the state of the command
agent_vars == <<agent, kernel, darshan_modules, cmd, answer>>

\* the locals of parse_darshan_to_csv and the output directory
parse_vars == <<log_content, pc, lines, modules, module, in_module, current_description,
                column_names, header, k, df, dir_exists, fs, listed, err, previous>>

\* one JupyterKernel, its kernel process and the calls of execute on it
kernel_vars == <<execution_lock, shell, replied, iopub, tasks>>

\* the conversation and the results of the agent, and its calls
session_vars == <<messages, analysis_result, summary, call, completed>>

vars == <<log_content, pc, lines, modules, module, in_module, current_description,
          column_names, header, k, df, dir_exists, fs, listed, err, previous,
          agent_vars, session_vars, kernel_vars>>

(***************************************************************************)
(* Bounds of the model.                                                    *)
(***************************************************************************)
MaxLines == 5
MaxHeaderLines == 3
MaxRows == 3
MaxSections == 2
MaxRuns == 2
MaxMessages == 2
MaxTasks == 2

(***************************************************************************)
(* str primitives.                                                         *)
(***************************************************************************)
None == <<>>

Whitespace == {" ", "\t"}

LineBreaks == {"\n", "\r\n", "\r"}

\* sub in line
Contains(line, sub) ==
    \E i \in 1..(Len(line) - Len(sub) + 1) : SubSeq(line, i, i + Len(sub) - 1) = sub

\* line.startswith(prefix)
StartsWith(line, prefix) ==
    /\ Len(line) >= Len(prefix)
    /\ SubSeq(line, 1, Len(prefix)) = prefix

\* not line.strip()
IsBlank(line) == \A i \in 1..Len(line) : line[i] \in Whitespace

RECURSIVE ConcatAll(_)
\* "".join(parts)
ConcatAll(parts) ==
    IF parts = <<>> THEN <<>> ELSE Head(parts) \o ConcatAll(Tail(parts))

RECURSIVE JoinWith(_, _)
\* sep.join(parts), sep a chunk
JoinWith(sep, parts) ==
    IF parts = <<>> THEN <<>>
    ELSE IF Len(parts) = 1 THEN parts[1]
    ELSE parts[1] \o <<sep>> \o JoinWith(sep, Tail(parts))

\* the pieces of text between its chunks that are in seps, empty pieces kept
SplitOn(text, seps) ==
    LET at == {i \in 1..Len(text) : text[i] \in seps}
        \* position of the j-th separator; 0 before the first, Len(text) + 1 after
        \* the last
        Sep(j) == IF j = 0 THEN 0
                  ELSE IF j > Cardinality(at) THEN Len(text) + 1
                  ELSE CHOOSE i \in at : Cardinality({h \in at : h <= i}) = j
    IN  [j \in 1..(Cardinality(at) + 1) |-> SubSeq(text, Sep(j - 1) + 1, Sep(j) - 1)]

\* line.split(): the maximal runs of non-white-space
split(line) == SelectSeq(SplitOn(line, Whitespace), LAMBDA t : t # <<>>)

\* text.splitlines(): a line break ends a line; no empty last line after a final
\* line break
splitlines(text) ==
    LET pieces == SplitOn(text, LineBreaks)
    IN  IF pieces[Len(pieces)] = <<>> THEN SubSeq(pieces, 1, Len(pieces) - 1)
        ELSE pieces

\* name.replace(" ", "_")
ReplaceSpaces(name) == [i \in 1..Len(name) |-> IF name[i] = " " THEN "_" ELSE name[i]]

\* index of the first ">" of line at or after i, 0 when there is none
FirstGt(line, i) ==
    IF \E j \in i..Len(line) : line[j] = ">"
    THEN CHOOSE j \in i..Len(line) :
            /\ line[j] = ">"
            /\ \A h \in i..(j - 1) : line[h] # ">"
    ELSE 0

RECURSIVE findall(_, _)
\* re.findall(r'<(.*?)>', line) read from index i: each "<" is matched with the
\* nearest ">" after it, and the search goes on after that ">"
findall(line, i) ==
    IF i > Len(line) THEN <<>>
    ELSE IF line[i] = "<" /\ FirstGt(line, i + 1) # 0
         THEN <<SubSeq(line, i + 1, FirstGt(line, i + 1) - 1)>>
              \o findall(line, FirstGt(line, i + 1) + 1)
         ELSE findall(line, i + 1)

\* the substrings "log file regions" and "module data"
LogFileRegions == <<"log", " ", "file", " ", "regions">>

ModuleData == <<"module", " ", "data">>

(***************************************************************************)
(* SKIP_LINES                                                              *)
(***************************************************************************)
SKIP_LINES == <<
    <<"#", " ", "*WARNING*: The POSIX module contains incomplete data!">>,
    <<"#", "            ", "This happens when a module runs out of">>,
    <<"#", "            ", "memory to store new record data.">>,
    <<"#", " ", "To avoid this error, consult the darshan-runtime">>,
    <<"#", " ", "documentation and consider setting the">>,
    <<"#", " ", "DARSHAN_EXCLUDE_DIRS environment variable to prevent">>,
    <<"#", " ", "Darshan from instrumenting unecessary files.">> >>

\* line in SKIP_LINES
InSkipLines(line) == \E i \in 1..Len(SKIP_LINES) : SKIP_LINES[i] = line

(***************************************************************************)
(* extract_header                                                          *)
(***************************************************************************)
RECURSIVE HeaderLoopContinue(_, _)
\* the loop with "continue" in place of "break": the lines after the marker line
\* are kept too
HeaderLoopContinue(ls, header_text) ==
    IF ls = <<>> THEN header_text
    ELSE IF Contains(Head(ls), LogFileRegions)
    THEN HeaderLoopContinue(Tail(ls), header_text)
    ELSE HeaderLoopContinue(Tail(ls), header_text \o Head(ls) \o <<"\n">>)

RECURSIVE HeaderLoop(_, _)
\* lines 80-85: the loop of extract_header over the lines ls
HeaderLoop(ls, header_text) ==
    IF ls = <<>> THEN header_text
    ELSE IF Contains(Head(ls), LogFileRegions) THEN header_text
    ELSE HeaderLoop(Tail(ls), header_text \o Head(ls) \o <<"\n">>)

extract_header(log_data) == HeaderLoop(splitlines(log_data), <<>>)

(***************************************************************************)
(* extract_modules.  The dict modules is a sequence of entries in          *)
(* insertion order; an entry is the key with the value stored under it.    *)
(***************************************************************************)
HasKey(d, key) == \E i \in 1..Len(d) : d[i].name = key

KeyIndex(d, key) == CHOOSE i \in 1..Len(d) : d[i].name = key

\* d[key] = value: a key already present keeps its place and gets the new value
SetItem(d, key, value) ==
    IF HasKey(d, key)
    THEN [d EXCEPT ![KeyIndex(d, key)] = [name |-> key] @@ value]
    ELSE Append(d, [name |-> key] @@ value)

\* d[fields[0]]['data'].append(fields): the row goes under its own first token,
\* in an entry like that of key when there is none yet
AppendDataByToken(d, key, fields) ==
    IF HasKey(d, fields[1])
    THEN [d EXCEPT ![KeyIndex(d, fields[1])].data = Append(@, fields)]
    ELSE Append(d, [d[KeyIndex(d, key)] EXCEPT !.name = fields[1], !.data = <<fields>>])

\* d[key]['data'].append(fields)
AppendData(d, key, fields) ==
    [d EXCEPT ![KeyIndex(d, key)].data = Append(@, fields)]

\* the column names of a column-spec line
ParseColumns(line) ==
    LET found == findall(line, 1)
    IN  [i \in 1..Len(found) |-> ReplaceSpaces(found[i])]

\* the first assignment of a section: modules[module] = {...}
NewEntry(d, key, cols, desc) ==
    SetItem(d, key, [columns |-> cols, data |-> <<>>,
                     description |-> JoinWith("\n", desc)])

\* One iteration of the for loop of extract_modules on line, from the scanner
\* state st = [modules, module, in_module, current_description, column_names].
ScanStep(st, line) ==
    IF InSkipLines(line) THEN st
    ELSE IF Contains(line, ModuleData)
    THEN [st EXCEPT !.current_description = <<>>]
    ELSE IF StartsWith(line, <<"#", "<", "module", ">">>)
    THEN [st EXCEPT !.column_names = ParseColumns(line), !.in_module = TRUE]
    ELSE IF StartsWith(line, <<"#">>) /\ ~st.in_module
    THEN [st EXCEPT !.current_description = Append(@, line)]
    ELSE IF st.in_module
    THEN IF IsBlank(line)
         THEN [st EXCEPT !.in_module = FALSE, !.module = None]
         ELSE LET fields == split(line)
                  name == IF st.module = None THEN fields[1] ELSE st.module
                  opened == IF st.module = None
                            THEN NewEntry(st.modules, name, st.column_names,
                                          st.current_description)
                            ELSE st.modules
              IN  [st EXCEPT !.module = name,
                             !.modules = AppendData(opened, name, fields)]
    ELSE st

ScannerState ==
    [modules |-> modules, module |-> module, in_module |-> in_module,
     current_description |-> current_description, column_names |-> column_names]

RECURSIVE ScanAll(_, _)
\* the whole loop of extract_modules over ls, from st
ScanAll(st, ls) == IF ls = <<>> THEN st ELSE ScanAll(ScanStep(st, Head(ls)), Tail(ls))

InitialScanner ==
    [modules |-> <<>>, module |-> None, in_module |-> FALSE,
     current_description |-> <<>>, column_names |-> <<>>]

\* extract_modules(log_data): the dict it returns
extract_modules(log_data) == ScanAll(InitialScanner, splitlines(log_data)).modules

(***************************************************************************)
(* The order of str values: Python compares by code point.  ChunkOrder     *)
(* lists the chunks a table cell can hold in that order; two str are       *)
(* compared chunk by chunk, a proper prefix first.                         *)
(***************************************************************************)
ChunkOrder == <<"#", ".csv", "0", "1", "17", "4", "9", "POSIX", "POSIX_OPENS",
                "POSIX_READS", "STDIO", "STDIO_OPENS", "app", "counters", "exe:", "file", "log", "regions">>

Rank(c) == CHOOSE i \in 1..Len(ChunkOrder) : ChunkOrder[i] = c

\* a < b
StrLess(a, b) ==
    \E i \in 1..Len(b) :
        /\ i - 1 <= Len(a)
        /\ \A j \in 1..(i - 1) : a[j] = b[j]
        /\ \/ i = Len(a) + 1
           \/ i <= Len(a) /\ Rank(a[i]) < Rank(b[i])

\* s < t for two tuples of str of one length
TupleLess(s, t) ==
    \E i \in 1..Len(s) :
        /\ \A j \in 1..(i - 1) : s[j] = t[j]
        /\ StrLess(s[i], t[i])

RECURSIVE SortStr(_)
SortStr(S) ==
    IF S = {} THEN <<>>
    ELSE LET m == CHOOSE x \in S : \A y \in S \ {x} : StrLess(x, y)
         IN  <<m>> \o SortStr(S \ {m})

RECURSIVE SortTuples(_)
SortTuples(S) ==
    IF S = {} THEN <<>>
    ELSE LET m == CHOOSE x \in S : \A y \in S \ {x} : TupleLess(x, y)
         IN  <<m>> \o SortTuples(S \ {m})

(***************************************************************************)
(* pandas, as parse_darshan_to_csv uses it.  A table is its column labels  *)
(* and its rows; a cell is a str or None.                                  *)
(***************************************************************************)
Counter == <<"counter">>

Value == <<"value">>

MaxWidth(rows) ==
    CHOOSE w \in {Len(rows[i]) : i \in 1..Len(rows)} :
        \A i \in 1..Len(rows) : Len(rows[i]) <= w

\* pd.DataFrame(rows, columns=columns) raises ValueError unless the longest row has
\* as many tokens as there are columns
DataFrameFits(rows, columns) == MaxWidth(rows) = Len(columns)

\* pd.DataFrame(rows, columns=columns): a shorter row is filled up with None
DataFrame(rows, columns) ==
    [columns |-> columns,
     rows |-> [i \in 1..Len(rows) |->
                  [j \in 1..Len(columns) |->
                      IF j <= Len(rows[i]) THEN rows[i][j] ELSE None]]]

\* position of the column labelled name
ColumnIndex(columns, name) ==
    CHOOSE i \in 1..Len(columns) :
        /\ columns[i] = name
        /\ \A j \in 1..(i - 1) : columns[j] # name

\* [col for col in columns if col not in ['counter', 'value']]
IndexColumns(columns) == SelectSeq(columns, LAMBDA col : col \notin {Counter, Value})

\* the cells of row under the labels names
Cells(columns, row, names) ==
    [i \in 1..Len(names) |-> row[ColumnIndex(columns, names[i])]]

\* the rows groupby keeps: no key (index column or counter) is missing
GroupedRows(frame, index) ==
    SelectSeq(frame.rows,
              LAMBDA row :
                  /\ \A i \in 1..Len(index) : Cells(frame.columns, row, index)[i] # None
                  /\ row[ColumnIndex(frame.columns, Counter)] # None)

\* aggfunc='last' in place of 'first'
Last(frame, index, key, c) ==
    LET rows == GroupedRows(frame, index)
        ci == ColumnIndex(frame.columns, Counter)
        vi == ColumnIndex(frame.columns, Value)
        hits == {i \in 1..Len(rows) :
                    /\ Cells(frame.columns, rows[i], index) = key
                    /\ rows[i][ci] = c
                    /\ rows[i][vi] # None}
    IN  IF hits = {} THEN None
        ELSE rows[CHOOSE i \in hits : \A j \in hits : i >= j][vi]

\* aggfunc='first' for the group (key, c): the first value of the group that is
\* not missing, None when all are
First(frame, index, key, c) ==
    LET rows == GroupedRows(frame, index)
        ci == ColumnIndex(frame.columns, Counter)
        vi == ColumnIndex(frame.columns, Value)
        hits == {i \in 1..Len(rows) :
                    /\ Cells(frame.columns, rows[i], index) = key
                    /\ rows[i][ci] = c
                    /\ rows[i][vi] # None}
    IN  IF hits = {} THEN None
        ELSE rows[CHOOSE i \in hits : \A j \in hits : i <= j][vi]

RECURSIVE FirstSeen(_)
\* the distinct elements of a sequence, in the order of their first occurrence
FirstSeen(seq) ==
    IF seq = <<>> THEN <<>>
    ELSE LET init == FirstSeen(SubSeq(seq, 1, Len(seq) - 1))
             last == seq[Len(seq)]
         IN  IF \E i \in 1..Len(init) : init[i] = last THEN init ELSE Append(init, last)

\* pivot_table with sort=False: row keys and counter labels in first-seen order
pivot_table_unsorted(frame, index) ==
    LET rows == SelectSeq(GroupedRows(frame, index),
                          LAMBDA row : row[ColumnIndex(frame.columns, Value)] # None)
        ci == ColumnIndex(frame.columns, Counter)
        keys == FirstSeen([i \in 1..Len(rows) |-> Cells(frame.columns, rows[i], index)])
        counters == FirstSeen([i \in 1..Len(rows) |-> rows[i][ci]])
    IN  [index_names |-> index,
         index |-> keys,
         columns |-> counters,
         cells |-> [i \in 1..Len(keys) |->
                       [j \in 1..Len(counters) |->
                           First(frame, index, keys[i], counters[j])]]]

\* frame.pivot_table(index=index, columns='counter', values='value',
\* aggfunc='first'): the groups whose first value is missing are dropped, the
\* others are unstacked with sorted row keys and sorted counter labels
pivot_table(frame, index) ==
    LET rows == GroupedRows(frame, index)
        ci == ColumnIndex(frame.columns, Counter)
        vi == ColumnIndex(frame.columns, Value)
        kept == {i \in 1..Len(rows) : rows[i][vi] # None}
        keys == SortTuples({Cells(frame.columns, rows[i], index) : i \in kept})
        counters == SortStr({rows[i][ci] : i \in kept})
    IN  [index_names |-> index,
         index |-> keys,
         columns |-> counters,
         cells |-> [i \in 1..Len(keys) |->
                       [j \in 1..Len(counters) |->
                           First(frame, index, keys[i], counters[j])]]]

\* table.reset_index() raises ValueError when an index name is a column label
CanResetIndex(table) ==
    \A i \in 1..Len(table.index_names) : \A j \in 1..Len(table.columns) :
        table.index_names[i] # table.columns[j]

\* table.reset_index(): the row keys become the first columns
reset_index(table) ==
    [columns |-> table.index_names \o table.columns,
     rows |-> [i \in 1..Len(table.index) |-> table.index[i] \o table.cells[i]]]

\* the text df.to_csv(path, index=False) writes: the labels, then the rows, cells
\* joined by ",", a missing cell empty
to_csv(table) ==
    ConcatAll(<<JoinWith(",", table.columns) \o <<"\n">> >>
              \o [i \in 1..Len(table.rows) |->
                     JoinWith(",", table.rows[i]) \o <<"\n">>])

(***************************************************************************)
(* The output directory.                                                   *)
(***************************************************************************)
EmptyDir == [name \in {} |-> <<>>]

\* the directory emptied before the write: the file is the only one left
WriteFileAlone(files, path, content) == [name \in {path} |-> content]

\* open(path, "a").write(content): the content is added to the file's
WriteFileAppend(files, path, content) ==
    [name \in DOMAIN files \cup {path} |->
        IF name # path THEN files[name]
        ELSE IF path \in DOMAIN files THEN files[path] \o content ELSE content]

\* open(path, "w").write(content)
WriteFile(files, path, content) ==
    [name \in DOMAIN files \cup {path} |-> IF name = path THEN content ELSE files[name]]

HeaderPath == <<"header", ".txt">>

\* f"{module_name}.csv"
DataPath(module_name) == module_name \o <<".csv">>

\* f"{module_name}_description.txt"
DescPath(module_name) == module_name \o <<"_description", ".txt">>

\* file.endswith(".csv")
EndsWithCsv(file) == Len(file) >= 1 /\ file[Len(file)] = ".csv"

\* file.replace(".csv", "")
ReplaceCsv(file) == SelectSeq(file, LAMBDA c : c # ".csv")

\* list_darshan_modules(analysis_dir): the names it returns, each with the number
\* of times it is in the list (the order is the directory's)
list_darshan_modules(files) ==
    LET csv == {file \in DOMAIN files : EndsWithCsv(file)}
    IN  [name \in {ReplaceCsv(file) : file \in csv} |->
            Cardinality({file \in csv : ReplaceCsv(file) = name})]

(***************************************************************************)
(* parse_darshan_to_csv(log_content, output_dir), one action per step.     *)
(***************************************************************************)
NoTable == [columns |-> <<>>, rows |-> <<>>]

\* line 153: raise ValueError("No data found in the log content")
NoDataError == "ValueError: No data found in the log content"

\* the exceptions of pandas: a row longer than the column list, no column
\* 'counter' or 'value', a counter label that is also an index column
ShapeError == "ValueError: columns passed"

MissingColumnError == "KeyError"

InsertError == "ValueError: cannot insert, already exists"

NotListed == [called |-> FALSE, names |-> EmptyDir]

\* no call of parse_darshan_to_csv has returned or raised yet
NoRun == [runs |-> 0, log_content |-> <<>>, dir_exists |-> FALSE, fs |-> EmptyDir]

\* os.makedirs ahead of the guard: the directory is made for an empty document too
parse_start_makedirs_first ==
    /\ pc = "start"
    /\ dir_exists' = TRUE
    /\ IF log_content = <<>>
       THEN /\ pc' = "error"
            /\ err' = NoDataError
            /\ lines' = lines
       ELSE /\ pc' = "extract_modules"
            /\ lines' = splitlines(log_content)
            /\ err' = err
    /\ modules' = InitialScanner.modules
    /\ module' = InitialScanner.module
    /\ in_module' = InitialScanner.in_module
    /\ current_description' = InitialScanner.current_description
    /\ column_names' = InitialScanner.column_names
    /\ UNCHANGED <<log_content, header, k, df, fs, listed>>
    /\ UNCHANGED <<previous, agent_vars, session_vars, kernel_vars>>

\* lines 152-160: the guard, os.makedirs, and the call of extract_modules
parse_start ==
    /\ pc = "start"
    /\ IF log_content = <<>>
       THEN /\ pc' = "error"
            /\ err' = NoDataError
            /\ UNCHANGED <<dir_exists, lines>>
       ELSE /\ pc' = "extract_modules"
            /\ dir_exists' = TRUE
            /\ lines' = splitlines(log_content)
            /\ err' = err
    /\ modules' = InitialScanner.modules
    /\ module' = InitialScanner.module
    /\ in_module' = InitialScanner.in_module
    /\ current_description' = InitialScanner.current_description
    /\ column_names' = InitialScanner.column_names
    /\ UNCHANGED <<log_content, header, k, df, fs, listed>>
    /\ UNCHANGED <<previous, agent_vars, session_vars, kernel_vars>>

\* lines 103-137: one iteration of the loop of extract_modules
scan_line ==
    /\ pc = "extract_modules"
    /\ lines # <<>>
    /\ LET st == ScanStep(ScannerState, Head(lines))
       IN  /\ modules' = st.modules
           /\ module' = st.module
           /\ in_module' = st.in_module
           /\ current_description' = st.current_description
           /\ column_names' = st.column_names
    /\ lines' = Tail(lines)
    /\ UNCHANGED <<log_content, pc, header, k, df, dir_exists, fs, listed, err>>
    /\ UNCHANGED <<previous, agent_vars, session_vars, kernel_vars>>

\* lines 139, 161: extract_modules returns, extract_header runs
call_extract_header ==
    /\ pc = "extract_modules"
    /\ lines = <<>>
    /\ header' = extract_header(log_content)
    /\ pc' = "save_header"
    /\ UNCHANGED <<log_content, lines, modules, module, in_module, current_description,
                   column_names, k, df, dir_exists, fs, listed, err>>
    /\ UNCHANGED <<previous, agent_vars, session_vars, kernel_vars>>

\* lines 164-166
save_header ==
    /\ pc = "save_header"
    /\ fs' = WriteFile(fs, HeaderPath, header)
    /\ k' = 1
    /\ pc' = "modules"
    /\ UNCHANGED <<log_content, lines, modules, module, in_module, current_description,
                   column_names, header, df, dir_exists, listed, err>>
    /\ UNCHANGED <<previous, agent_vars, session_vars, kernel_vars>>

\* the description written ahead of the table: a failing category leaves its
\* description behind
process_module_description_first ==
    /\ pc = "modules"
    /\ k <= Len(modules)
    /\ LET columns == modules[k].columns
           rows == modules[k].data
           described == WriteFile(fs, DescPath(modules[k].name), modules[k].description)
       IN  IF ~DataFrameFits(rows, columns)
           THEN /\ pc' = "error"
                /\ err' = ShapeError
                /\ df' = df
                /\ fs' = described
           ELSE IF ~(Contains(columns, <<Counter>>) /\ Contains(columns, <<Value>>))
           THEN /\ pc' = "error"
                /\ err' = MissingColumnError
                /\ df' = df
                /\ fs' = described
           ELSE IF ~CanResetIndex(pivot_table(DataFrame(rows, columns),
                                              IndexColumns(columns)))
           THEN /\ pc' = "error"
                /\ err' = InsertError
                /\ df' = df
                /\ fs' = described
           ELSE /\ df' = reset_index(pivot_table(DataFrame(rows, columns),
                                                 IndexColumns(columns)))
                /\ fs' = WriteFile(described, DataPath(modules[k].name), to_csv(df'))
                /\ pc' = "description"
                /\ err' = err
    /\ UNCHANGED <<log_content, lines, modules, module, in_module, current_description,
                   column_names, header, k, dir_exists, listed>>
    /\ UNCHANGED <<previous, agent_vars, session_vars, kernel_vars>>

\* lines 170-193: the table of the k-th module is built, reshaped and written; an
\* exception of pandas ends the run
process_module ==
    /\ pc = "modules"
    /\ k <= Len(modules)
    /\ LET columns == modules[k].columns
           rows == modules[k].data
       IN  IF ~DataFrameFits(rows, columns)
           THEN /\ pc' = "error"
                /\ err' = ShapeError
                /\ UNCHANGED <<df, fs>>
           ELSE IF ~(Contains(columns, <<Counter>>) /\ Contains(columns, <<Value>>))
           THEN /\ pc' = "error"
                /\ err' = MissingColumnError
                /\ UNCHANGED <<df, fs>>
           ELSE IF ~CanResetIndex(pivot_table(DataFrame(rows, columns),
                                              IndexColumns(columns)))
           THEN /\ pc' = "error"
                /\ err' = InsertError
                /\ UNCHANGED <<df, fs>>
           ELSE /\ df' = reset_index(pivot_table(DataFrame(rows, columns),
                                                 IndexColumns(columns)))
                /\ fs' = WriteFile(fs, DataPath(modules[k].name), to_csv(df'))
                /\ pc' = "description"
                /\ err' = err
    /\ UNCHANGED <<log_content, lines, modules, module, in_module, current_description,
                   column_names, header, k, dir_exists, listed>>
    /\ UNCHANGED <<previous, agent_vars, session_vars, kernel_vars>>

\* lines 194-195
save_description ==
    /\ pc = "description"
    /\ fs' = WriteFile(fs, DescPath(modules[k].name), modules[k].description)
    /\ k' = k + 1
    /\ pc' = "modules"
    /\ UNCHANGED <<log_content, lines, modules, module, in_module, current_description,
                   column_names, header, df, dir_exists, listed, err>>
    /\ UNCHANGED <<previous, agent_vars, session_vars, kernel_vars>>

\* line 200: the loop over modules.items() is over
parse_finish ==
    /\ pc = "modules"
    /\ k > Len(modules)
    /\ pc' = "done"
    /\ UNCHANGED <<log_content, lines, modules, module, in_module, current_description,
                   column_names, header, k, df, dir_exists, fs, listed, err>>
    /\ UNCHANGED <<previous, agent_vars, session_vars, kernel_vars>>

\* list_darshan_modules(output_dir), called once parse_darshan_to_csv has returned
\* or raised
call_list_darshan_modules ==
    /\ pc \in {"done", "error"}
    /\ dir_exists
    /\ ~listed.called
    /\ listed' = [called |-> TRUE, names |-> list_darshan_modules(fs)]
    /\ UNCHANGED <<log_content, pc, lines, modules, module, in_module,
                   current_description, column_names, header, k, df, dir_exists, fs, err>>
    /\ UNCHANGED <<previous, agent_vars, session_vars, kernel_vars>>

Next ==
    \/ parse_start
    \/ scan_line
    \/ call_extract_header
    \/ save_header
    \/ process_module
    \/ save_description
    \/ parse_finish
    \/ call_list_darshan_modules

\* parse_darshan_to_csv is called again, once the call before has returned or
\* raised, with a document of documents and the same output_dir: the locals are
\* new, the directory is as the earlier call left it
parse_again(documents) ==
    /\ pc \in {"done", "error"}
    /\ previous.runs + 1 < MaxRuns
    /\ previous' = [runs |-> previous.runs + 1, log_content |-> log_content,
                    dir_exists |-> dir_exists, fs |-> fs]
    /\ log_content' \in documents
    /\ pc' = "start"
    /\ lines' = <<>>
    /\ modules' = InitialScanner.modules
    /\ module' = InitialScanner.module
    /\ in_module' = InitialScanner.in_module
    /\ current_description' = InitialScanner.current_description
    /\ column_names' = InitialScanner.column_names
    /\ header' = None
    /\ k' = 0
    /\ df' = NoTable
    /\ listed' = NotListed
    /\ err' = "none"
    /\ UNCHANGED <<dir_exists, fs, agent_vars, session_vars, kernel_vars>>

(***************************************************************************)
(* The question command: run_question of main.py, with __init__ and        *)
(* ask_question of DarshanSummarizerAgent.                                 *)
(***************************************************************************)
\* main.py line 191
FileNotFoundError == "FileNotFoundError: Analysis directory not found"

\* a call with a keyword the signature of the method does not have
TypeError == "TypeError: got an unexpected keyword argument"

\* agent.py line 321
NotInitializedError == "RuntimeError: Agent not initialized. Call parse_log() first."

\* agent.py line 341
ReloadError == "RuntimeError: Failed to reload data"

\* what self.agent.run(prompt) returns
Answer == "answer"

Errors == {FileNotFoundError, TypeError, NotInitializedError, ReloadError}

\* the parameters of ask_question(self, question, reset_conversation=False)
AskQuestionParameters == {"question", "reset_conversation"}

\* ask_question called with the keywords given, on an agent with the fields
\* self_agent and self_kernel: what the call can return or raise
ask_question(keywords, reset_conversation, self_agent, self_kernel) ==
    IF ~(keywords \subseteq AskQuestionParameters) THEN {TypeError}
    ELSE IF self_agent = None \/ self_kernel = None THEN {NotInitializedError}
    ELSE IF reset_conversation THEN {ReloadError, Answer}
    ELSE {Answer}

\* main.py lines 190-208 and agent.py lines 91-109: the directory is looked up
\* and the agent is constructed
question_start ==
    /\ cmd = "none"
    /\ pc \in {"start", "done", "error"}
    /\ IF ~dir_exists
       THEN /\ cmd' = "error"
            /\ answer' = FileNotFoundError
            /\ UNCHANGED <<agent, kernel, darshan_modules>>
       ELSE /\ cmd' = "constructed"
            /\ agent' = None
            /\ kernel' = None
            /\ darshan_modules' = EmptyDir
            /\ answer' = answer
    /\ UNCHANGED <<log_content, pc, lines, modules, module, in_module,
                   current_description, column_names, header, k, df, dir_exists, fs,
                   listed, err, previous, session_vars, kernel_vars>>

\* main.py lines 211-212
question_list_modules ==
    /\ cmd = "constructed"
    /\ darshan_modules' = list_darshan_modules(fs)
    /\ cmd' = "loaded"
    /\ UNCHANGED <<log_content, pc, lines, modules, module, in_module,
                   current_description, column_names, header, k, df, dir_exists, fs,
                   listed, err, previous, agent, kernel, answer, session_vars, kernel_vars>>

\* main.py line 218: agent.ask_question(args.question, load_new_environment=True)
question_ask ==
    /\ cmd = "loaded"
    /\ answer' \in ask_question({"load_new_environment"}, FALSE, agent, kernel)
    /\ cmd' = IF answer' \in Errors THEN "error" ELSE "answered"
    /\ UNCHANGED <<log_content, pc, lines, modules, module, in_module,
                   current_description, column_names, header, k, df, dir_exists, fs,
                   listed, err, previous, agent, kernel, darshan_modules, session_vars, kernel_vars>>

\* the parse command or library call, and the question command
NextQuestion ==
    \/ Next
    \/ question_start
    \/ question_list_modules
    \/ question_ask

(***************************************************************************)
(* The methods of DarshanSummarizerAgent, called one after the other on    *)
(* one agent: parse_log, analyze, summarize, ask_question.                 *)
(***************************************************************************)
\* agent.py line 246
NoMessagesError == "RuntimeError: Must run analyze() before summarize()"

\* agent.py line 207
LoadError == "RuntimeError: Failed to load data"

\* the objects parse_log puts in self.kernel and self.agent
JupyterKernel == <<"JupyterKernel">>

PocketAgent == <<"PocketAgent">>

\* what analyze and summarize get from the run of an agent
AnalysisResult == <<"analysis">>

Summary == <<"summary">>

AnalysisPath == <<"analysis", ".txt">>

MessagesPath == <<"messages", ".json">>

SummaryPath == <<"summary", ".txt">>

NoCall == [method |-> "none", outcome |-> "none", error |-> "none", executed |-> FALSE]

\* the call of method has returned; executed: it ran code in the kernel or sent a
\* request to the LLM
Returns(method, executed) ==
    [method |-> method, outcome |-> "returned", error |-> "none", executed |-> executed]

\* the call of method has raised error
Raises(method, error, executed) ==
    [method |-> method, outcome |-> "raised", error |-> error, executed |-> executed]

\* agent.py lines 111-127: parse_log is called and calls parse_darshan_to_csv
parse_log ==
    /\ call.outcome # "running"
    /\ pc = "start"
    /\ call' = [method |-> "parse_log", outcome |-> "running", error |-> "none",
                executed |-> FALSE]
    /\ UNCHANGED kernel_vars
    /\ UNCHANGED <<log_content, pc, lines, modules, module, in_module,
                   current_description, column_names, header, k, df, dir_exists, fs,
                   listed, err, previous, agent_vars, messages, analysis_result,
                   summary, completed>>

\* agent.py lines 127-149: parse_darshan_to_csv has raised, and parse_log with it;
\* or it has returned: the modules are listed, the kernel is made and started,
\* the agent is made.  started, made: JupyterKernel.start and init_pocket_agent
\* return rather than raise.
parse_log_return ==
    /\ call.method = "parse_log"
    /\ call.outcome = "running"
    /\ pc \in {"done", "error"}
    /\ IF pc = "error"
       THEN /\ call' = Raises("parse_log", err, FALSE)
            /\ UNCHANGED <<darshan_modules, kernel, agent, messages, completed>>
       ELSE /\ darshan_modules' = list_darshan_modules(fs)
            /\ kernel' = JupyterKernel
            /\ \E started, made \in BOOLEAN :
                  IF started /\ made
                  THEN /\ agent' = PocketAgent
                       /\ messages' = <<>>
                       /\ call' = Returns("parse_log", FALSE)
                       /\ completed' = completed \cup {"parse_log"}
                  ELSE /\ call' = Raises("parse_log", "Exception", FALSE)
                       /\ UNCHANGED <<agent, messages, completed>>
    /\ UNCHANGED kernel_vars
    /\ UNCHANGED <<log_content, pc, lines, modules, module, in_module,
                   current_description, column_names, header, k, df, dir_exists, fs,
                   listed, err, previous, cmd, answer, analysis_result, summary>>

\* agent.py lines 186-236; loaded: the setup code runs without error in the kernel
analyze ==
    /\ call.outcome # "running"
    /\ IF agent = None \/ kernel = None
       THEN /\ call' = Raises("analyze", NotInitializedError, FALSE)
            /\ UNCHANGED <<messages, analysis_result, fs, completed>>
       ELSE \E loaded \in BOOLEAN :
               IF ~loaded
               THEN /\ call' = Raises("analyze", LoadError, TRUE)
                    /\ UNCHANGED <<messages, analysis_result, fs, completed>>
               ELSE /\ Len(messages) < MaxMessages
                    /\ messages' = Append(messages, "analyze")
                    /\ fs' = WriteFile(WriteFile(fs, AnalysisPath, AnalysisResult),
                                       MessagesPath, messages')
                    /\ analysis_result' = AnalysisResult
                    /\ call' = Returns("analyze", TRUE)
                    /\ completed' = completed \cup {"analyze"}
    /\ UNCHANGED kernel_vars
    /\ UNCHANGED <<log_content, pc, lines, modules, module, in_module,
                   current_description, column_names, header, k, df, dir_exists,
                   listed, err, previous, agent_vars, summary>>

\* agent.py lines 238-285
summarize ==
    /\ call.outcome # "running"
    /\ IF agent = None \/ messages = <<>>
       THEN /\ call' = Raises("summarize", NoMessagesError, FALSE)
            /\ UNCHANGED <<summary, fs, completed>>
       ELSE /\ summary' = Summary
            /\ fs' = WriteFile(fs, SummaryPath, Summary)
            /\ call' = Returns("summarize", TRUE)
            /\ completed' = completed \cup {"summarize"}
    /\ UNCHANGED kernel_vars
    /\ UNCHANGED <<log_content, pc, lines, modules, module, in_module,
                   current_description, column_names, header, k, df, dir_exists,
                   listed, err, previous, agent_vars, messages, analysis_result>>

\* agent.py lines 309-351: ask_question(question, reset_conversation); with
\* reset_conversation the agent is a new one, with no messages, before the setup
\* code is run again
call_ask_question ==
    /\ call.outcome # "running"
    /\ \E reset_conversation \in BOOLEAN :
          \E outcome \in ask_question({"question", "reset_conversation"},
                                     reset_conversation, agent, kernel) :
              /\ outcome = Answer => (reset_conversation \/ Len(messages) < MaxMessages)
              /\ call' = IF outcome = Answer THEN Returns("ask_question", TRUE)
                         ELSE Raises("ask_question", outcome,
                                     outcome # NotInitializedError)
              /\ messages' = IF outcome = NotInitializedError THEN messages
                             ELSE IF outcome = ReloadError THEN <<>>
                             ELSE IF reset_conversation THEN <<"ask_question">>
                             ELSE Append(messages, "ask_question")
              /\ completed' = IF outcome = Answer THEN completed \cup {"ask_question"}
                              ELSE completed
    /\ UNCHANGED kernel_vars
    /\ UNCHANGED <<log_content, pc, lines, modules, module, in_module,
                   current_description, column_names, header, k, df, dir_exists, fs,
                   listed, err, previous, agent_vars, analysis_result, summary>>

\* parse_darshan_to_csv, and the methods of one agent in any order
NextAgent ==
    \/ Next
    \/ parse_log
    \/ parse_log_return
    \/ analyze
    \/ summarize
    \/ call_ask_question

(***************************************************************************)
(* JupyterKernel (jupyter_kernel.py): calls of execute, each in a task of  *)
(* its own, on one started kernel.  The kernel process takes the requests  *)
(* in the order they were sent and answers each on the one output channel  *)
(* with a busy status, a stream message and an idle status, each carrying  *)
(* the request as parent.                                                  *)
(***************************************************************************)
Tasks == 1..MaxTasks

\* a call of execute that has not begun
NewTask == [pc |-> "new", messages |-> <<>>]

StatusBusy(request) ==
    [parent |-> request, msg_type |-> "status", execution_state |-> "busy"]

Stream(request) ==
    [parent |-> request, msg_type |-> "stream", execution_state |-> "none"]

StatusIdle(request) ==
    [parent |-> request, msg_type |-> "status", execution_state |-> "idle"]

\* the messages the kernel process publishes for a request
Replies(request) == <<StatusBusy(request), Stream(request), StatusIdle(request)>>

\* lines 121-134: execute is called; the kernel is started, messages = []
execute(t) ==
    /\ tasks[t].pc = "new"
    /\ tasks' = [tasks EXCEPT ![t] = [pc |-> "lock", messages |-> <<>>]]
    /\ UNCHANGED <<execution_lock, shell, replied, iopub>>
    /\ UNCHANGED <<parse_vars, agent_vars, session_vars>>

\* lines 90-91: the lock is taken and the request sent
execute_raw(t) ==
    /\ tasks[t].pc = "lock"
    /\ execution_lock = 0
    /\ execution_lock' = t
    /\ shell' = Append(shell, t)
    /\ tasks' = [tasks EXCEPT ![t].pc = "reading"]
    /\ UNCHANGED <<replied, iopub>>
    /\ UNCHANGED <<parse_vars, agent_vars, session_vars>>

\* lines 96-104 and 137-138: the next message of the channel is read, yielded and
\* appended; an idle status ends the loop and the lock is released
get_iopub_msg(t) ==
    /\ tasks[t].pc = "reading"
    /\ iopub # <<>>
    /\ LET reply == Head(iopub)
           idle == reply.msg_type = "status" /\ reply.execution_state = "idle"
       IN  /\ tasks' = [tasks EXCEPT ![t] =
                          [pc |-> IF idle THEN "returned" ELSE "reading",
                           messages |-> Append(@.messages, reply)]]
           /\ execution_lock' = IF idle THEN 0 ELSE execution_lock
    /\ iopub' = Tail(iopub)
    /\ UNCHANGED <<shell, replied>>
    /\ UNCHANGED <<parse_vars, agent_vars, session_vars>>

\* lines 106-108: the task is cancelled while it waits for the lock or for a
\* message; CancelledError leaves execute_raw, which releases the lock it holds,
\* and execute (it is no Exception)
cancel(t) ==
    /\ tasks[t].pc \in {"lock", "reading"}
    /\ execution_lock' = IF tasks[t].pc = "reading" THEN 0 ELSE execution_lock
    /\ tasks' = [tasks EXCEPT ![t].pc = "cancelled"]
    /\ UNCHANGED <<shell, replied, iopub>>
    /\ UNCHANGED <<parse_vars, agent_vars, session_vars>>

\* the kernel process publishes the next message for the request it works on
kernel_reply ==
    /\ shell # <<>>
    /\ iopub' = Append(iopub, Replies(Head(shell))[replied + 1])
    /\ IF replied + 1 = Len(Replies(Head(shell)))
       THEN shell' = Tail(shell) /\ replied' = 0
       ELSE shell' = shell /\ replied' = replied + 1
    /\ UNCHANGED <<execution_lock, tasks>>
    /\ UNCHANGED <<parse_vars, agent_vars, session_vars>>

NextKernel ==
    \/ \E t \in Tasks : execute(t)
    \/ \E t \in Tasks : execute_raw(t)
    \/ \E t \in Tasks : get_iopub_msg(t)
    \/ \E t \in Tasks : cancel(t)
    \/ kernel_reply

(***************************************************************************)
(* Input documents.                                                        *)
(***************************************************************************)
\* the lines ls, each ended by "\n"
Text(ls) == ConcatAll([i \in 1..Len(ls) |-> ls[i] \o <<"\n">>])

\* a data line: tokens separated by one space
Row(tokens) == JoinWith(" ", tokens)

SeqsUpTo(S, n) == UNION {[1..m -> S] : m \in 0..n}

HeaderComment == <<"#", " ", "exe:", " ", "app">>

RegionsLine == <<"#", " ">> \o LogFileRegions

ModuleDataLine == <<"#", " ", "POSIX", " ">> \o ModuleData

SkipLine == SKIP_LINES[1]

BlankLine == <<>>

\* "#<module> <counter> <value>"
ColumnSpec3 == <<"#", "<", "module", ">", " ", "<", "counter", ">", " ", "<", "value", ">">>

\* "#<module>\t<rank>\t<record id>\t<counter>\t<value>"
ColumnSpec5 ==
    <<"#", "<", "module", ">", "\t", "<", "rank", ">", "\t", "<", "record", " ", "id", ">",
      "\t", "<", "counter", ">", "\t", "<", "value", ">">>

RowOpens3 == Row(<< <<"POSIX">>, <<"POSIX_OPENS">>, <<"4">> >>)

RowReads3 == Row(<< <<"POSIX">>, <<"POSIX_READS">>, <<"9">> >>)

ScanLines ==
    {HeaderComment, RegionsLine, SkipLine, ColumnSpec3, RowOpens3, RowReads3, BlankLine}

InitWith(documents) ==
    /\ log_content \in documents
    /\ pc = "start"
    /\ lines = <<>>
    /\ modules = InitialScanner.modules
    /\ module = InitialScanner.module
    /\ in_module = InitialScanner.in_module
    /\ current_description = InitialScanner.current_description
    /\ column_names = InitialScanner.column_names
    /\ header = None
    /\ k = 0
    /\ df = NoTable
    /\ dir_exists = FALSE
    /\ fs = EmptyDir
    /\ listed = NotListed
    /\ err = "none"
    /\ previous = NoRun
    /\ agent = None
    /\ kernel = None
    /\ darshan_modules = EmptyDir
    /\ cmd = "none"
    /\ answer = "none"
    /\ messages = <<>>
    /\ analysis_result = None
    /\ summary = None
    /\ call = NoCall
    /\ completed = {}
    /\ execution_lock = 0
    /\ shell = <<>>
    /\ replied = 0
    /\ iopub = <<>>
    /\ tasks = [t \in Tasks |-> NewTask]

\* documents of at most MaxLines lines of ScanLines
Init == InitWith({Text(ls) : ls \in SeqsUpTo(ScanLines, MaxLines)})

Spec == Init /\ [][Next]_vars

\* A header, then one section under ColumnSpec5 with at most MaxRows data lines.
Row5(module_name, rank, record_id, counter, value) ==
    Row(<<module_name, <<rank>>, <<record_id>>, <<counter>>, <<value>> >>)

RowOpens == Row5(<<"POSIX">>, "0", "17", "POSIX_OPENS", "4")

RowReads == Row5(<<"POSIX">>, "0", "17", "POSIX_READS", "9")

\* the same record and counter as RowOpens, another value
RowOpensAgain == Row5(<<"POSIX">>, "0", "17", "POSIX_OPENS", "9")

RowOtherRank == Row5(<<"POSIX">>, "1", "17", "POSIX_OPENS", "4")

\* a data line that stops after its counter
RowNoValue == Row(<< <<"POSIX">>, <<"1">>, <<"17">>, <<"POSIX_READS">> >>)

\* a data line with one token more than ColumnSpec5 names
RowLong == RowReads \o <<" ", "app">>

\* a data line whose first token holds ".csv"
RowCsvName == Row5(<<"POSIX", ".csv">>, "0", "17", "POSIX_OPENS", "4")

TableRows ==
    {RowOpens, RowReads, RowOpensAgain, RowOtherRank, RowNoValue, RowLong, RowCsvName}

TableDocuments ==
    {Text(<<HeaderComment, RegionsLine, ModuleDataLine, ColumnSpec5>> \o rows) :
        rows \in SeqsUpTo(TableRows, MaxRows)}

InitTable == InitWith(TableDocuments)

SpecTable == InitTable /\ [][Next]_vars

\* the question command on the directory of a call of parse_darshan_to_csv
SpecQuestion == InitTable /\ [][NextQuestion]_vars

\* A header, the marker line, then at most MaxSections sections of Sections.
CommentPosix == <<"#", " ", "POSIX", " ", "counters">>

CommentStdio == <<"#", " ", "STDIO", " ", "counters">>

RowStdio == Row5(<<"STDIO">>, "0", "17", "STDIO_OPENS", "4")

\* a data line with one token more than ColumnSpec5 names
RowStdioLong == RowStdio \o <<" ", "app">>

Preamble == <<HeaderComment, RegionsLine>>

SectionPosix == <<ModuleDataLine, CommentPosix, ColumnSpec5, RowOpens, RowReads, BlankLine>>

\* a section with no "module data" line before its comment
SectionStdio == <<CommentStdio, ColumnSpec5, RowStdio, BlankLine>>

\* sections whose table pandas refuses: a row longer than the column list
SectionStdioLong == <<ModuleDataLine, CommentStdio, ColumnSpec5, RowStdioLong, BlankLine>>

SectionPosixLong == <<ModuleDataLine, CommentPosix, ColumnSpec5, RowLong, BlankLine>>

\* a column-spec line and the blank line right after it
SectionEmpty == <<ModuleDataLine, CommentPosix, ColumnSpec5, BlankLine>>

\* a column-spec line that the next section, or the end of the input, follows
SectionOpen == <<ColumnSpec5>>

\* data lines of two first tokens, a "module data" line and a second column-spec
\* line before the blank line
SectionMixed ==
    <<CommentPosix, ColumnSpec5, RowOpens, RowStdio, ModuleDataLine, ColumnSpec3, RowReads,
      BlankLine>>

Sections ==
    {SectionPosix, SectionStdio, SectionStdioLong, SectionPosixLong, SectionEmpty,
     SectionOpen, SectionMixed}

SectionDocuments ==
    {Text(Preamble \o ConcatAll(ss)) : ss \in SeqsUpTo(Sections, MaxSections)}

InitSections == InitWith(SectionDocuments)

SpecSections == InitSections /\ [][Next]_vars

\* Calls of parse_darshan_to_csv one after the other with one output_dir: the
\* empty document, and documents of at most two sections.
RunSections == {<<>>, SectionPosix, SectionStdio, SectionStdioLong}

RunDocuments ==
    {<<>>} \cup {Text(Preamble \o first \o second) : first, second \in RunSections}

InitRuns == InitWith(RunDocuments)

NextRuns ==
    \/ Next
    \/ parse_again(RunDocuments)

SpecRuns == InitRuns /\ [][NextRuns]_vars

\* the methods of one DarshanSummarizerAgent on a document of RunDocuments
SpecAgent == InitRuns /\ [][NextAgent]_vars

\* calls of execute on one JupyterKernel, no document being parsed
InitKernel == InitWith({<<>>})

SpecKernel == InitKernel /\ [][NextKernel]_vars

\* Documents of at most MaxHeaderLines lines, each ended by "\n" or "\r\n", the
\* last one possibly by nothing.
PlainLine == <<"app">>

HeaderLines == {HeaderComment, PlainLine, RegionsLine, ColumnSpec3, RowOpens3}

TextWithBreaks(ls, breaks) == ConcatAll([i \in 1..Len(ls) |-> ls[i] \o breaks[i]])

HeaderDocuments ==
    {TextWithBreaks(d.ls, d.breaks \o <<d.last>>) :
        d \in UNION {[ls : [1..m -> HeaderLines],
                      breaks : [1..(m - 1) -> {<<"\n">>, <<"\r\n">>}],
                      last : {<<"\n">>, <<"\r\n">>, <<>>}] : m \in 1..MaxHeaderLines}}

InitHeader == InitWith(HeaderDocuments)

SpecHeader == InitHeader /\ [][Next]_vars

(***************************************************************************)
(* Claims.                                                                 *)
(***************************************************************************)
IsPrefix(s, t) == Len(s) <= Len(t) /\ SubSeq(t, 1, Len(s)) = s

\* extract_modules has returned
Scanned ==
    \/ pc \in {"save_header", "modules", "description", "done"}
    \/ pc = "error" /\ err # NoDataError

\* C1: rows accumulate by category name.  Every step of the scan keeps, for each
\* category already in modules, the rows stored so far as a prefix of the
\* category's rows: a later section of the same name appends, no row is lost.
C1_RowsAccumulate ==
    [][pc = "extract_modules" =>
          \A i \in 1..Len(modules) :
              \E j \in 1..Len(modules') :
                  /\ modules'[j].name = modules[i].name
                  /\ IsPrefix(modules[i].data, modules'[j].data)]_vars

\* the lines of the document
DocLines == splitlines(log_content)

\* index of the first line of ls that contains "log file regions", 0 when none does
RegionsIndexOf(ls) ==
    IF \E i \in 1..Len(ls) : Contains(ls[i], LogFileRegions)
    THEN CHOOSE i \in 1..Len(ls) :
            /\ Contains(ls[i], LogFileRegions)
            /\ \A j \in 1..(i - 1) : ~Contains(ls[j], LogFileRegions)
    ELSE 0

RegionsIndex == RegionsIndexOf(DocLines)

\* number of header lines: the lines before the marker line, all lines without one
HeaderCount == IF RegionsIndex = 0 THEN Len(DocLines) ELSE RegionsIndex - 1

InSeq(x, seq) == \E i \in 1..Len(seq) : seq[i] = x

\* the lines joined into a description
DescLines(description) ==
    IF description = <<>> THEN <<>> ELSE SplitOn(description, {"\n"})

\* C2: header isolation.  A line before the first "log file regions" line (whose
\* text does not occur again from that line on) is in no category's description
\* and is no category's data row.
C2_HeaderIsolation ==
    modules # <<>> =>
        LET ls == DocLines
            regions == RegionsIndexOf(ls)
        IN  regions # 0 =>
                \A i \in 1..(regions - 1) :
                    (\A j \in regions..Len(ls) : ls[j] # ls[i]) =>
                        \A n \in 1..Len(modules) :
                            /\ ~InSeq(ls[i], DescLines(modules[n].description))
                            /\ ~InSeq(split(ls[i]), modules[n].data)

\* C3: denylist exclusion.  No line of header.txt, no line of a description (kept
\* or written) and no data row is a SKIP_LINES entry.
C3_DenylistExclusion ==
    /\ \A name \in DOMAIN fs :
           name \in {HeaderPath} \cup {DescPath(modules[n].name) : n \in 1..Len(modules)} =>
               \A i \in 1..Len(splitlines(fs[name])) : ~InSkipLines(splitlines(fs[name])[i])
    /\ \A n \in 1..Len(modules) :
           /\ \A i \in 1..Len(DescLines(modules[n].description)) :
                  ~InSkipLines(DescLines(modules[n].description)[i])
           /\ \A i \in 1..Len(SKIP_LINES) : ~InSeq(split(SKIP_LINES[i]), modules[n].data)

\* C4: a document without a "log file regions" line yields no category: modules
\* stays empty and nothing but header.txt is written.
C4_NoRegionsNoCategories ==
    (modules # <<>> \/ ~(DOMAIN fs \subseteq {HeaderPath})) => RegionsIndex # 0

\* extract_header has returned
HeaderExtracted == Scanned

\* every line of the document is ended by "\n"
AllLinesEndWithLf == log_content = Text(DocLines)

RECURSIVE LinesLength(_)
\* number of chunks of the lines ls with one line break after each
LinesLength(ls) == IF ls = <<>> THEN 0 ELSE Len(Head(ls)) + 1 + LinesLength(Tail(ls))

\* the document up to the start of the first "log file regions" line, its own line
\* breaks included
RawHeader ==
    LET n == LinesLength(SubSeq(DocLines, 1, HeaderCount))
    IN  SubSeq(log_content, 1, IF n > Len(log_content) THEN Len(log_content) ELSE n)

Reshaped == pc = "description"

RawRows == modules[k].data

RawColumns == modules[k].columns

\* number of identity columns
IdentityWidth == Len(IndexColumns(RawColumns))

\* identity tuple of a raw row and of a row of df
RawKey(row) == Cells(RawColumns, row, IndexColumns(RawColumns))

TableKey(row) == SubSeq(row, 1, IdentityWidth)

RawCounter(row) == row[ColumnIndex(RawColumns, Counter)]

RawValue(row) == row[ColumnIndex(RawColumns, Value)]

\* the positions of the counter columns of df
CounterPositions == (IdentityWidth + 1)..Len(df.columns)

AllRowsFit == \A i \in 1..Len(RawRows) : Len(RawRows[i]) = Len(RawColumns)

\* index of the first raw row with the identity tuple and counter of row i
FirstIndex(i) ==
    CHOOSE h \in 1..i :
        /\ RawKey(RawRows[h]) = RawKey(RawRows[i])
        /\ RawCounter(RawRows[h]) = RawCounter(RawRows[i])
        /\ \A g \in 1..(h - 1) :
               ~(RawKey(RawRows[g]) = RawKey(RawRows[i])
                 /\ RawCounter(RawRows[g]) = RawCounter(RawRows[i]))

\* C6: first occurrence wins.  When every raw row has as many tokens as there are
\* columns, the cell of identity tuple key and counter c holds the value of the
\* first raw row with that tuple and counter, every filled cell is such a value,
\* and the rows POSIX 0 17 POSIX_OPENS 4 / POSIX 0 17 POSIX_READS 9 give the file
\* module,rank,record_id,POSIX_OPENS,POSIX_READS / POSIX,0,17,4,9.
C6_FirstOccurrenceWins ==
    (Reshaped /\ AllRowsFit) =>
        /\ \A i \in 1..Len(RawRows) :
               \E r \in 1..Len(df.rows) : \E j \in CounterPositions :
                   /\ TableKey(df.rows[r]) = RawKey(RawRows[i])
                   /\ df.columns[j] = RawCounter(RawRows[i])
                   /\ df.rows[r][j] = RawValue(RawRows[FirstIndex(i)])
        /\ \A r \in 1..Len(df.rows) : \A j \in CounterPositions :
               \/ df.rows[r][j] = None
               \/ \E i \in 1..Len(RawRows) :
                      /\ TableKey(df.rows[r]) = RawKey(RawRows[i])
                      /\ df.columns[j] = RawCounter(RawRows[i])
                      /\ df.rows[r][j] = RawValue(RawRows[FirstIndex(i)])
        /\ RawRows = <<split(RowOpens), split(RowReads)>> =>
               fs[DataPath(<<"POSIX">>)] =
                   <<"module", ",", "rank", ",", "record", "_", "id", ",",
                     "POSIX_OPENS", ",", "POSIX_READS", "\n",
                     "POSIX", ",", "0", ",", "17", ",", "4", ",", "9", "\n">>

\* C6, witness: two raw rows of one identity tuple and counter with different
\* values
C6_Witness ==
    /\ Reshaped
    /\ AllRowsFit
    /\ \E i \in 1..Len(RawRows) :
           /\ FirstIndex(i) # i
           /\ RawValue(RawRows[FirstIndex(i)]) # RawValue(RawRows[i])

\* the filled-up raw rows whose identity cells are all present
CompleteKeys ==
    LET frame == DataFrame(RawRows, RawColumns)
    IN  {RawKey(frame.rows[i]) : i \in {h \in 1..Len(RawRows) :
            \A g \in 1..IdentityWidth : RawKey(frame.rows[h])[g] # None}}

\* C7: grouping uniqueness.  No two rows of the table have the same identity
\* tuple, and every identity tuple of the raw rows is the tuple of one row.
C7_GroupingUniqueness ==
    Reshaped =>
        /\ \A r1, r2 \in 1..Len(df.rows) :
               TableKey(df.rows[r1]) = TableKey(df.rows[r2]) => r1 = r2
        /\ \A key \in CompleteKeys :
               \E r \in 1..Len(df.rows) : TableKey(df.rows[r]) = key

\* C8: column fidelity.  The counter columns of the table are the distinct values
\* of the counter column of the raw rows.
C8_ColumnFidelity ==
    Reshaped =>
        {df.columns[j] : j \in CounterPositions} =
            {RawCounter(RawRows[i]) :
                i \in {h \in 1..Len(RawRows) :
                          Len(RawRows[h]) >= ColumnIndex(RawColumns, Counter)}}

\* the cells of the first line of the file <category>.csv of modules[k]
CsvHeaderCells == SplitOn(splitlines(fs[DataPath(modules[k].name)])[1], {","})

C10_RoundTripEnumeration ==
    (pc = "done" /\ listed.called) =>
        listed.names = [name \in {modules[n].name : n \in 1..Len(modules)} |-> 1]

\* a call of parse_darshan_to_csv has returned or raised
Returned == pc \in {"done", "error"}

\* the call that has returned or raised is a second one, of the document of the
\* call before it
SameDocumentAgain ==
    Returned /\ previous.runs >= 1 /\ log_content = previous.log_content

\* C11: idempotence.  When parse_darshan_to_csv has been called twice in sequence
\* with the same log content and the same output directory, the directory after
\* the second call is the directory after the first: the same set of files, each
\* with the same content.
C11_Idempotence ==
    SameDocumentAgain => (fs = previous.fs /\ dir_exists = previous.dir_exists)

\* a second call on a document of two categories has returned: header.txt and two
\* artifacts of each category are in the directory
C11_Witness ==
    /\ SameDocumentAgain
    /\ pc = "done"
    /\ Len(modules) = 2
    /\ \A i \in 1..Len(modules) :
          {DataPath(modules[i].name), DescPath(modules[i].name)} \subseteq DOMAIN fs

\* C12: the no-data error.  A call of parse_darshan_to_csv on the empty document
\* (which has zero categories) raises the no-data error, and a call that raised it
\* leaves the output directory as it found it: not created when it did not exist,
\* no file written or modified.
C12_NoDataError ==
    /\ (pc # "start" /\ log_content = <<>>) =>
          (pc = "error" /\ err = NoDataError /\ extract_modules(log_content) = <<>>)
    /\ err = NoDataError =>
          (dir_exists = previous.dir_exists /\ fs = previous.fs /\ modules = <<>>)

\* the first call, on the empty document, has raised: there is no directory
C12_Witness ==
    /\ pc = "error"
    /\ err = NoDataError
    /\ log_content = <<>>
    /\ previous.runs = 0
    /\ ~dir_exists

\* line is one the scanner takes for a column-spec line
IsColumnSpec(line) ==
    /\ ~InSkipLines(line)
    /\ ~Contains(line, ModuleData)
    /\ StartsWith(line, <<"#", "<", "module", ">">>)

\* ls has a column-spec line that a blank line, or the end of the input, follows
HasEmptyBlock(ls) ==
    \E i \in 1..Len(ls) :
        /\ IsColumnSpec(ls[i])
        /\ (i = Len(ls) \/ IsBlank(ls[i + 1]))

\* C13: the empty category.  A document with a category block that a column-spec
\* line opens and a blank line or the end of the input closes at once, with no
\* data row, makes parse_darshan_to_csv fail: the call does not complete.
C13_EmptyCategoryFails == HasEmptyBlock(DocLines) => pc # "done"

\* run_question has ended, on an analysis directory that exists
QuestionEnded == cmd \in {"answered", "error"} /\ answer # FileNotFoundError

\* C14: the question command resumes a session.  On an existing analysis directory
\* run_question ends with an answer of ask_question and not with an error, the
\* category list being the one of list_darshan_modules; no step of the command is
\* a step of parse_darshan_to_csv (the actions of the command leave pc, modules and
\* fs unchanged).
C14_QuestionAnswered ==
    QuestionEnded =>
        /\ cmd = "answered"
        /\ answer = Answer
        /\ darshan_modules = list_darshan_modules(fs)

\* the exceptions the reshape of a category can end with
ReshapeErrors == {ShapeError, MissingColumnError, InsertError}

\* the reshape of the k-th category has failed
ReshapeFailed == pc = "error" /\ err \in ReshapeErrors

\* pandas accepts the i-th category: the table is built, pivoted and re-indexed
Reshapes(i) ==
    LET columns == modules[i].columns
        rows == modules[i].data
    IN  /\ DataFrameFits(rows, columns)
        /\ Contains(columns, <<Counter>>)
        /\ Contains(columns, <<Value>>)
        /\ CanResetIndex(pivot_table(DataFrame(rows, columns), IndexColumns(columns)))

\* header.txt and the two artifacts of each of the first n categories
ArtifactsUpTo(n) ==
    {HeaderPath} \cup {DataPath(modules[i].name) : i \in 1..n}
                 \cup {DescPath(modules[i].name) : i \in 1..n}

\* C15: abort at the failing category.  The run never goes past a category whose
\* reshape fails.  When the reshape of the k-th category has failed, the directory
\* (empty before the run) holds header.txt and the .csv and _description.txt of the
\* categories before the k-th, with the header and the descriptions of the scan,
\* and nothing of the k-th or a later category.  At every moment a category's
\* _description.txt in the directory has that category's .csv beside it.
C15_AbortAtFailingCategory ==
    /\ \A i \in 1..(k - 1) : Reshapes(i)
    /\ ReshapeFailed =>
          /\ ~Reshapes(k)
          /\ DOMAIN fs = ArtifactsUpTo(k - 1)
          /\ fs[HeaderPath] = header
          /\ \A i \in 1..(k - 1) : fs[DescPath(modules[i].name)] = modules[i].description
    /\ \A i \in 1..Len(modules) :
          DescPath(modules[i].name) \in DOMAIN fs => DataPath(modules[i].name) \in DOMAIN fs

\* the reshape of the second category has failed after the artifacts of the first
\* were written
C15_Witness ==
    /\ ReshapeFailed
    /\ k = 2
    /\ {DataPath(modules[1].name), DescPath(modules[1].name)} \subseteq DOMAIN fs

\* number of lines of ls that are the line d
Occurrences(d, ls) == Cardinality({p \in 1..Len(ls) : ls[p] = d})

\* C16: a description is the category's own comment block.  Every line of a
\* category's description is a comment line of the document and no "module data"
\* line, and a comment line of the description of an earlier category (one the
\* document has once) is in no later category's description.
C16_DescriptionIsOwnBlock ==
    Scanned =>
        \A j \in 1..Len(modules) :
            LET desc == DescLines(modules[j].description)
            IN  \A n \in 1..Len(desc) :
                    /\ StartsWith(desc[n], <<"#">>)
                    /\ ~Contains(desc[n], ModuleData)
                    /\ InSeq(desc[n], DocLines)
                    /\ \A i \in 1..(j - 1) :
                           InSeq(desc[n], DescLines(modules[i].description)) =>
                               Occurrences(desc[n], DocLines) >= 2

\* C17: the "log file regions" line is in no output.  Once the document is scanned
\* and the header extracted, a line of the document containing "log file regions"
\* is no line of the header text, no line of a category's description and no
\* category's data row.
C17_SentinelExcluded ==
    Scanned =>
        LET ls == DocLines
        IN  \A p \in 1..Len(ls) :
                Contains(ls[p], LogFileRegions) =>
                    /\ ~InSeq(ls[p], splitlines(header))
                    /\ \A n \in 1..Len(modules) :
                           /\ ~InSeq(ls[p], DescLines(modules[n].description))
                           /\ ~InSeq(split(ls[p]), modules[n].data)

\* the scanner is inside a section and the line it reads next is neither blank nor
\* a SKIP_LINES entry
InSectionLine ==
    /\ pc = "extract_modules"
    /\ lines # <<>>
    /\ in_module
    /\ ~IsBlank(Head(lines))
    /\ ~InSkipLines(Head(lines))

\* the step stores the line read as one raw row, all tokens, under the name of the
\* section: the first token of the line when the section has no row yet, the
\* section's name otherwise, whatever the line's first token; the rows of the
\* section stay, the other categories are not touched
SectionLineStored ==
    LET fields == split(Head(lines))
        name == IF module = None THEN fields[1] ELSE module
    IN  /\ module' = name
        /\ HasKey(modules', name)
        /\ LET data == modules'[KeyIndex(modules', name)].data
           IN  /\ data # <<>>
               /\ data[Len(data)] = fields
               /\ module # None => data = Append(modules[KeyIndex(modules, name)].data, fields)
        /\ \A i \in 1..Len(modules) : modules[i].name # name => modules'[i] = modules[i]

\* the line read next contains "module data" or is a column-spec line
IsMarkerLine ==
    \/ Contains(Head(lines), ModuleData)
    \/ StartsWith(Head(lines), <<"#", "<", "module", ">">>)

\* C18: inside a section (from a column-spec line to the next blank line) the
\* first token of the first data row names the category, and every line that is
\* not blank, not a SKIP_LINES entry, has no "module data" in it and is no
\* column-spec line is stored with all its tokens as one raw row under that name,
\* also when its own first token differs.
C18_DataLineStored == [][(InSectionLine /\ ~IsMarkerLine) => SectionLineStored]_vars

\* a row is stored in a category whose name is not the row's first token
C18_Witness ==
    \E n \in 1..Len(modules) :
        \E r \in 1..Len(modules[n].data) : modules[n].data[r][1] # modules[n].name

\* C18 as stated: every line of the section that is not blank and not a SKIP_LINES
\* entry is stored as a raw row.
C18_EveryLineStored == [][InSectionLine => SectionLineStored]_vars

\* C19: row width.  Every raw row stored for a category has at least as many
\* tokens as the category's column list has names.
C19_RowsAsWideAsColumns ==
    \A n \in 1..Len(modules) :
        \A r \in 1..Len(modules[n].data) :
            Len(modules[n].data[r]) >= Len(modules[n].columns)

\* the files a call on log_content may write: header.txt and the two artifacts of
\* each category of the document
CurrentArtifacts ==
    LET found == extract_modules(log_content)
    IN  {HeaderPath} \cup {DataPath(found[i].name) : i \in 1..Len(found)}
                     \cup {DescPath(found[i].name) : i \in 1..Len(found)}

Position == Len(DocLines) - Len(lines) + 1

\* the column list of the most recent column-spec line before the p-th line of ls,
\* the empty list when there is none
ColumnsBefore(ls, p) ==
    IF \E q \in 1..(p - 1) : IsColumnSpec(ls[q])
    THEN LET q == CHOOSE q \in 1..(p - 1) :
                      /\ IsColumnSpec(ls[q])
                      /\ \A r \in (q + 1)..(p - 1) : ~IsColumnSpec(ls[r])
         IN  ParseColumns(ls[q])
    ELSE <<>>

\* C21: the column list of a row.  When the scanner stores a line as a raw row,
\* the column list of the category the row is stored under is the one parsed
\* (in order, spaces replaced by underscores) from the most recent column-spec
\* line before that line, also when that column-spec line is a second one inside
\* the section.
C21_ColumnsOfPrecedingSpec ==
    [][(InSectionLine /\ ~IsMarkerLine) =>
          modules'[KeyIndex(modules', module')].columns = ColumnsBefore(DocLines, Position)]_vars

\* C22: the order of the calls on one agent.  A call of analyze or ask_question
\* made when no parse_log has returned raises the not-initialized RuntimeError
\* without having run code or sent a request; a call of summarize made when the
\* agent's messages hold no message of analyze raises the RuntimeError of
\* summarize; and such a call leaves analysis_result, summary and darshan_modules
\* as they were.
C22_CallOrder ==
    [][/\ (call'.method \in {"analyze", "ask_question"} /\ "parse_log" \notin completed) =>
              /\ call'.outcome = "raised"
              /\ call'.error = NotInitializedError
              /\ ~call'.executed
              /\ UNCHANGED <<analysis_result, summary, darshan_modules>>
       /\ (call'.method = "summarize" /\ ~InSeq("analyze", messages)) =>
              /\ call'.outcome = "raised"
              /\ call'.error = NoMessagesError
              /\ ~call'.executed
              /\ UNCHANGED <<analysis_result, summary, darshan_modules>>]_vars

\* C23: execute under interleaving.  A call of execute holds the execution lock
\* exactly while it reads (from sending its request until it stops reading), the
\* messages it has collected are the first messages of its own request, and the
\* messages it returns are those of its own request up to the idle status, also
\* after another call was cancelled before it had read its idle status.
C23_OwnMessages ==
    \A t \in Tasks :
        /\ tasks[t].pc = "reading" <=> execution_lock = t
        /\ IsPrefix(tasks[t].messages, Replies(t))
        /\ tasks[t].pc = "returned" => tasks[t].messages = Replies(t)

====
